---- MODULE Spec2Model ----
(***************************************************************************)
(* Model of Step_1_save_road_network_geometry.py: the per-city download    *)
(* loop with its CSV log and resume guard, and the two helper functions    *)
(* get_city_polygon and largest_connected_component.                       *)
(*                                                                         *)
(* Text (a city name, a status, a CSV field) is a sequence of tokens, so   *)
(* that concatenation, prefix tests and strip() are computed.  Optional    *)
(* values (a local that is not bound yet) are sequences of length 0 or 1.  *)
(***************************************************************************)
EXTENDS Integers, Sequences, FiniteSets, TLC

\* ---------------------------------------------------------------- bounds
\* One invocation on an empty output directory (SpecOnce): the number of
\* rows of the input shapefile, and the largest number of nodes of a road
\* graph returned by the download.
NumCities == 2
MaxRoadNodes == 2
\* Invocations that follow each other and can be killed (Spec): the number
\* of invocations, the number of rows of the input shapefile, and the largest
\* number of nodes of a road graph returned by the download.
MaxRuns == 2
ResumeCities == 2
ResumeRoadNodes == 1
\* Largest number of nodes of a graph handed to largest_connected_component
\* when the function is checked on its own.
MaxNodes == 3
\* Largest number of parts of a multi-polygon handed to get_city_polygon
\* when the function is checked on its own.
MaxParts == 3
\* Largest half-width of a part of such a multi-polygon.
MaxSide == 2

\* ------------------------------------------------------- program constants
\* simplify_tolerance = 0.01 degree; coordinates are counted in units of
\* 0.01 degree, which makes the tolerance one unit.
simplify_tolerance == 1
\* time.sleep(3)
SleepSeconds == 3

\* ------------------------------------------------------------ small helpers
Abs(x) == IF x < 0 THEN -x ELSE x

Range(s) == {s[i] : i \in 1..Len(s)}

\* s.startswith(p) on token sequences
StartsWith(s, p) == Len(s) >= Len(p) /\ SubSeq(s, 1, Len(p)) = p

RECURSIVE SeqsUpTo(_, _)
\* all sequences over S of length at most n
SeqsUpTo(S, n) ==
    IF n = 0 THEN {<<>>}
    ELSE LET shorter == SeqsUpTo(S, n - 1)
         IN  shorter \cup {Append(s, x) : s \in {t \in shorter : Len(t) = n - 1}, x \in S}

\* The outcome of a Python call: a returned value or a raised exception
\* with the message str(e).
Returned(v) == [raised |-> FALSE, value |-> <<v>>, exc |-> <<>>]
Raised(msg) == [raised |-> TRUE, value |-> <<>>, exc |-> msg]

\* -------------------------------------------- largest_connected_component
\* An undirected graph: nodes in insertion order, edges as sets {u, v}
\* (a self-loop is {u}).  Node ids are 1..k in insertion order: any graph
\* is isomorphic to one of these, the order included.
GraphsOn(k) ==
    LET pairs == {{u, v} : u \in 1..k, v \in 1..k}
    IN  {[nodes |-> [i \in 1..k |-> i], edges |-> E] : E \in SUBSET pairs}

Graphs(n) == UNION {GraphsOn(k) : k \in 0..n}

\* G.adj[v]
adj(G, v) == {w \in Range(G.nodes) : {v, w} \in G.edges}

RECURSIVE plain_bfs_from(_, _)
\* networkx _plain_bfs: the nodes reachable from the set seen so far
plain_bfs_from(G, seen) ==
    LET nextlevel == seen \cup UNION {adj(G, v) : v \in seen}
    IN  IF nextlevel = seen THEN seen ELSE plain_bfs_from(G, nextlevel)

plain_bfs(G, source) == plain_bfs_from(G, {source})

RECURSIVE connected_components_from(_, _, _)
\* nx.connected_components: for v in G: if v not in seen: yield bfs(G, v)
connected_components_from(G, i, seen) ==
    IF i > Len(G.nodes) THEN <<>>
    ELSE IF G.nodes[i] \in seen THEN connected_components_from(G, i + 1, seen)
    ELSE LET c == plain_bfs(G, G.nodes[i])
         IN  <<c>> \o connected_components_from(G, i + 1, seen \cup c)

connected_components(G) == connected_components_from(G, 1, {})

RECURSIVE max_by_len_from(_, _, _)
\* max(components, key=len): the running maximum is replaced only by a
\* strictly larger element, so the first maximum is kept
max_by_len_from(components, i, best) ==
    IF i > Len(components) THEN best
    ELSE max_by_len_from(components, i + 1,
            IF Cardinality(components[i]) > Cardinality(best)
            THEN components[i] ELSE best)

max_by_len(components) == max_by_len_from(components, 2, components[1])

\* G.subgraph(nbunch).copy(): the induced subgraph as a new graph
subgraph_copy(G, nbunch) ==
    [nodes |-> SelectSeq(G.nodes, LAMBDA v : v \in nbunch),
     edges |-> {e \in G.edges : e \subseteq nbunch}]

\* str(e) of the ValueError that max() raises on an empty list
MaxEmptyMessage == <<"max()", " ", "arg", " ", "is", " ", "an", " ", "empty", " ", "sequence">>

\* faulty variant: the last maximum is kept instead of the first
largest_connected_component_last(G) ==
    LET components == connected_components(G)
        rev == [i \in 1..Len(components) |-> components[Len(components) + 1 - i]]
    IN  IF components = <<>> THEN Raised(MaxEmptyMessage)
        ELSE Returned(subgraph_copy(G, max_by_len(rev)))

\* faulty variant: max() given a default, so an empty graph is returned as it is
largest_connected_component_default(G) ==
    LET components == connected_components(G)
    IN  IF components = <<>> THEN Returned(subgraph_copy(G, {}))
        ELSE Returned(subgraph_copy(G, max_by_len(components)))

largest_connected_component(G) ==
    LET components == connected_components(G)
    IN  IF components = <<>> THEN Raised(MaxEmptyMessage)
        ELSE Returned(subgraph_copy(G, max_by_len(components)))

\* ------------------------------------------------------- get_city_polygon
\* A geometry: a Polygon with its closed exterior ring (first point = last
\* point, points <<x, y>>), or a MultiPolygon with its parts in order.
Polygon(ring) == [geom_type |-> "Polygon", ring |-> ring, geoms |-> <<>>]
MultiPolygon(geoms) == [geom_type |-> "MultiPolygon", ring |-> <<>>, geoms |-> geoms]

RECURSIVE Shoelace(_, _)
\* twice the signed area of the ring, from its i-th point on
Shoelace(ring, i) ==
    IF i >= Len(ring) THEN 0
    ELSE ring[i][1] * ring[i + 1][2] - ring[i + 1][1] * ring[i][2] + Shoelace(ring, i + 1)

\* g.area of a Polygon (the rings used here have an even doubled area)
area(g) == Abs(Shoelace(g.ring, 1)) \div 2

RECURSIVE max_by_area_from(_, _, _)
\* max(geom.geoms, key=lambda g: g.area): the first maximum is kept
max_by_area_from(geoms, i, best) ==
    IF i > Len(geoms) THEN best
    ELSE max_by_area_from(geoms, i + 1,
            IF area(geoms[i]) > area(best) THEN geoms[i] ELSE best)

max_by_area(geoms) == max_by_area_from(geoms, 2, geoms[1])

SqDist(p, q) == (p[1] - q[1]) * (p[1] - q[1]) + (p[2] - q[2]) * (p[2] - q[2])

\* squared distance of p to the segment a-b, times |ab|^2 (times 1 when a = b)
SegDistScaled(p, a, b) ==
    LET len2 == SqDist(a, b)
        dot == (p[1] - a[1]) * (b[1] - a[1]) + (p[2] - a[2]) * (b[2] - a[2])
        cross == (b[1] - a[1]) * (p[2] - a[2]) - (b[2] - a[2]) * (p[1] - a[1])
    IN  IF len2 = 0 THEN SqDist(p, a)
        ELSE IF dot < 0 THEN SqDist(p, a) * len2
        ELSE IF dot > len2 THEN SqDist(p, b) * len2
        ELSE cross * cross

\* squared tolerance on the same scale
TolScaled(a, b, tolerance) ==
    IF a = b THEN tolerance * tolerance ELSE tolerance * tolerance * SqDist(a, b)

RECURSIVE douglas_peucker(_, _, _, _)
\* the indices of ring[i..j] that Douglas-Peucker keeps
douglas_peucker(ring, i, j, tolerance) ==
    IF j <= i + 1 THEN {i, j}
    ELSE LET d(k) == SegDistScaled(ring[k], ring[i], ring[j])
             far == CHOOSE k \in (i + 1)..(j - 1) :
                        /\ \A m \in (i + 1)..(j - 1) : d(m) <= d(k)
                        /\ \A m \in (i + 1)..(k - 1) : d(m) < d(k)
         IN  IF d(far) > TolScaled(ring[i], ring[j], tolerance)
             THEN douglas_peucker(ring, i, far, tolerance)
                      \cup douglas_peucker(ring, far, j, tolerance)
             ELSE {i, j}

\* geom.simplify(tolerance, preserve_topology=True) of a Polygon: the ring
\* reduced by Douglas-Peucker; a ring that would lose its shape (fewer than
\* 4 points) is left as it is
simplify(g, tolerance) ==
    LET keep == douglas_peucker(g.ring, 1, Len(g.ring), tolerance)
        ring == SelectSeq([i \in 1..Len(g.ring) |-> <<i, g.ring[i]>>],
                          LAMBDA ip : ip[1] \in keep)
        out == [i \in 1..Len(ring) |-> ring[i][2]]
    IN  IF Len(out) < 4 THEN g ELSE Polygon(out)

\* faulty variant: the first part is taken, whatever its area
get_city_polygon_first(geom, tolerance) ==
    LET part == IF geom.geom_type = "MultiPolygon" THEN geom.geoms[1] ELSE geom
    IN  IF tolerance # 0 THEN simplify(part, tolerance) ELSE part

get_city_polygon(geom, tolerance) ==
    LET part == IF geom.geom_type = "MultiPolygon" THEN max_by_area(geom.geoms) ELSE geom
    IN  IF tolerance # 0 THEN simplify(part, tolerance) ELSE part

\* A part of a city boundary: a square of side 2w whose lower-left corner is
\* at x = o, with one more vertex in the middle of the lower side, bump units
\* below it (0: on the side; 1: within the tolerance; 2: beyond it).
Part(o, w, bump) ==
    Polygon(<< <<o, 0>>, <<o + w, -bump>>, <<o + 2 * w, 0>>,
               <<o + 2 * w, 2 * w>>, <<o, 2 * w>>, <<o, 0>> >>)

\* the shapes a part may have: <<w, bump>>
Shapes == (1..MaxSide) \X {0, 1, 2}

\* the parts laid side by side, the i-th at x = 10 * i
Laid(shapes) == [i \in 1..Len(shapes) |-> Part(10 * i, shapes[i][1], shapes[i][2])]

\* the geometries get_city_polygon is checked on: every single polygon and
\* every multi-polygon of 1..MaxParts parts
Geometries ==
    {Part(0, sh[1], sh[2]) : sh \in Shapes}
        \cup {MultiPolygon(Laid(s)) : s \in SeqsUpTo(Shapes, MaxParts) \ {<<>>}}

\* ------------------------------------------------------------- the script
\* china_cities: row i of the shapefile. Names are a unique key of the
\* input; a raw name may carry blanks around it.
Letters == <<"A", "B", "C", "D", "E">>

RawName(i) ==
    CASE i % 3 = 1 -> <<Letters[i]>>
      [] i % 3 = 2 -> <<" ", Letters[i]>>
      [] OTHER     -> <<Letters[i], " ">>

\* row.geometry: odd rows are single polygons, even rows multi-polygons
RowGeometry(i) ==
    IF i % 2 = 1 THEN Part(0, 1, 1)
    ELSE MultiPolygon(Laid(<< <<1, 0>>, <<2, 1>> >>))

\* china_cities_proj.iloc[idx].geometry.area, in square metres
ProjArea(i) == 1000000 * (i + 1)

RECURSIVE strip(_)
\* str.strip(): blanks removed at both ends
strip(s) ==
    IF s = <<>> THEN s
    ELSE IF Head(s) = " " THEN strip(Tail(s))
    ELSE IF s[Len(s)] = " " THEN strip(SubSeq(s, 1, Len(s) - 1))
    ELSE s

\* line 60-61: name = str(row["name"]).strip()
CityName(i) == strip(RawName(i))

\* line 68-70: area_km2 = geom_proj.area / 1e6
area_km2(i) == ProjArea(i) \div 1000000

\* Python values of the record's count fields
PyNone == [type |-> "NoneType", v |-> 0]
PyInt(n) == [type |-> "int", v |-> n]

\* line 48
header == <<"city", "status", "nodes", "edges", "area_km2">>

\* the text csv.DictWriter writes for a value: None is the empty field
csv_field(x) == IF x.type = "NoneType" THEN <<>> ELSE <<x.v>>

\* writer.writerow(record): the fields in the order of the header
writerow(record) ==
    <<record.city, record.status, csv_field(record.nodes),
      csv_field(record.edges), csv_field(record.area_km2)>>

\* pd.read_csv(csv_path): the lines after the header, as records
read_csv(file) ==
    [i \in 1..(Len(file) - 1) |->
        [city |-> file[i + 1][1], status |-> file[i + 1][2],
         nodes |-> file[i + 1][3], edges |-> file[i + 1][4],
         area_km2 |-> file[i + 1][5]]]

StatusSuccess == <<"success">>

\* f"failed: {e}"
StatusFailed(msg) == <<"failed:", " ">> \o msg

\* line 51-56
load_downloaded_cities(file) ==
    IF file # <<>>
    THEN {r.city : r \in {x \in Range(read_csv(file)) : x.status = StatusSuccess}}
    ELSE {}

\* str(e) of the exceptions the library calls raise
Messages == {<<"success">>}

\* A directed road graph as the download returns it: nodes 1..k in
\* insertion order, arcs <<u, v>> between distinct nodes.
DiGraphs(n) ==
    UNION {{[nodes |-> [i \in 1..k |-> i], edges |-> A] :
                A \in SUBSET {a \in (1..k) \X (1..k) : a[1] # a[2]}} : k \in 0..n}

\* G.to_undirected(): the arcs u->v and v->u become the one edge {u, v}
to_undirected(G) ==
    [nodes |-> G.nodes, edges |-> {{a[1], a[2]} : a \in G.edges}]

VARIABLES
    china_cities,       \* line 20: the rows of the shapefile, by row number
    osm_max_nodes,      \* the size of the road graphs the provider returns
    csv,                \* city_road_stats.csv: its lines, the header first
    files,              \* the city names that have a <name>.graphml file
    run,                \* the number of invocations started so far
    pc,                 \* where the running invocation is
    idx,                \* the row of china_cities the loop is at
    downloaded_cities,  \* line 53 / 56
    geom,               \* line 74
    G,                  \* line 81
    G_main,             \* line 84
    record,             \* line 92 / 102
    raised_at,          \* history: the step of this city that raised, or ""
    csv0,               \* history: the CSV when the invocation started
    trace,              \* history: what the invocation has done so far
    interrupted,        \* history: an invocation has been killed
    lccG, lccOut,       \* largest_connected_component on its own
    geomIn, geomOut     \* get_city_polygon on its own

inputVars == <<china_cities, osm_max_nodes>>
loopVars == <<csv, files, run, pc, idx, downloaded_cities, geom, G, G_main,
              record, raised_at, csv0, trace, interrupted>>
fnVars == <<lccG, lccOut, geomIn, geomOut>>
vars == <<inputVars, loopVars, fnVars>>

\* an entry of the history: what was done for which city; for "reach",
\* whether its graph file was there when the loop reached it; for "sleep",
\* the seconds slept
Event(ev, city, had_file, seconds) ==
    [ev |-> ev, city |-> city, had_file |-> had_file, seconds |-> seconds]

Did(ev, i) == Event(ev, CityName(i), FALSE, 0)

\* the output directory is empty and the script has not been started
LoopInit ==
    /\ csv = <<>>
    /\ files = {}
    /\ run = 0
    /\ pc = "start"
    /\ idx = 0
    /\ downloaded_cities = {}
    /\ geom = <<>>
    /\ G = <<>>
    /\ G_main = <<>>
    /\ record = <<>>
    /\ raised_at = ""
    /\ csv0 = <<>>
    /\ trace = <<>>
    /\ interrupted = FALSE

FnIdle ==
    /\ lccG = <<>>
    /\ lccOut = <<>>
    /\ geomIn = <<>>
    /\ geomOut = <<>>

\* the shapefile has n rows and the provider returns graphs of up to k nodes
Input(n, k) ==
    /\ china_cities = [i \in 1..n |-> i]
    /\ osm_max_nodes = k

Init == Input(ResumeCities, ResumeRoadNodes) /\ LoopInit /\ FnIdle

\* The script is started: lines 44-56. The process starts with no locals.
Startup ==
    /\ pc \in {"start", "done", "killed"}
    /\ run < MaxRuns
    /\ run' = run + 1
    /\ downloaded_cities' = load_downloaded_cities(csv)
    /\ idx' = 1
    /\ pc' = "loop"
    /\ csv0' = csv
    /\ trace' = <<>>
    /\ geom' = <<>> /\ G' = <<>> /\ G_main' = <<>> /\ record' = <<>>
    /\ raised_at' = ""
    /\ UNCHANGED <<csv, files, interrupted, inputVars, fnVars>>

\* faulty variant: the file on disk is not looked at
SkipGuard_csv_only(i) == CityName(i) \in downloaded_cities

\* faulty variant: the name is looked up as it stands in the shapefile, not stripped
SkipGuard_raw(i) == RawName(i) \in downloaded_cities \/ RawName(i) \in files

\* line 64: name in downloaded_cities or os.path.exists(save_path)
SkipGuard(i) == CityName(i) \in downloaded_cities \/ CityName(i) \in files

Reach(i) == Event("reach", CityName(i), CityName(i) \in files, 0)

\* line 64-66: the city is skipped
LoopSkip ==
    /\ pc = "loop" /\ idx <= Len(china_cities)
    /\ SkipGuard(idx)
    /\ idx' = idx + 1
    /\ trace' = trace \o <<Reach(idx), Did("skip", idx)>>
    /\ UNCHANGED <<raised_at, csv, files, run, pc, downloaded_cities, geom, G, G_main,
                   record, csv0, interrupted, inputVars, fnVars>>

\* line 64-73: the city is not skipped; the try block is entered
LoopEnter ==
    /\ pc = "loop" /\ idx <= Len(china_cities)
    /\ ~SkipGuard(idx)
    /\ pc' = "polygon"
    /\ trace' = trace \o <<Reach(idx)>>
    /\ UNCHANGED <<raised_at, csv, files, run, idx, downloaded_cities, geom, G, G_main,
                   record, csv0, interrupted, inputVars, fnVars>>

\* line 59, 120: no row is left
LoopEnd ==
    /\ pc = "loop" /\ idx > Len(china_cities)
    /\ pc' = "done"
    /\ UNCHANGED <<raised_at, csv, files, run, idx, downloaded_cities, geom, G, G_main,
                   record, csv0, trace, interrupted, inputVars, fnVars>>

\* line 74
GetPolygon ==
    /\ pc = "polygon"
    /\ geom' = <<get_city_polygon(RowGeometry(idx), simplify_tolerance)>>
    /\ pc' = "download"
    /\ UNCHANGED <<raised_at, csv, files, run, idx, downloaded_cities, G, G_main, record,
                   csv0, trace, interrupted, inputVars, fnVars>>

\* line 78: the request is sent
DownloadRequest ==
    /\ pc = "download"
    /\ pc' = "downloading"
    /\ trace' = Append(trace, Did("download", idx))
    /\ UNCHANGED <<raised_at, csv, files, run, idx, downloaded_cities, geom, G, G_main,
                   record, csv0, interrupted, inputVars, fnVars>>

\* line 78-81: ox.graph_from_polygon returns a directed graph, which
\* G.to_undirected() replaces at once
DownloadReturn ==
    /\ pc = "downloading"
    /\ \E g \in DiGraphs(osm_max_nodes) : G' = <<to_undirected(g)>>
    /\ pc' = "reduce"
    /\ UNCHANGED <<raised_at, csv, files, run, idx, downloaded_cities, geom, G_main,
                   record, csv0, trace, interrupted, inputVars, fnVars>>

\* faulty variant: the handler ends the run instead of recording the failure
Handler_abort(step, msg) ==
    /\ record' = <<>>
    /\ pc' = "done"
    /\ G' = <<>> /\ G_main' = <<>>
    /\ raised_at' = step
    /\ trace' = Append(trace, Did("raise", idx))

\* faulty variant: the handler records the counts as 0
Handler_zero(step, msg) ==
    /\ record' = <<[city |-> CityName(idx), status |-> StatusFailed(msg),
                    nodes |-> PyInt(0), edges |-> PyInt(0),
                    area_km2 |-> PyInt(area_km2(idx))]>>
    /\ pc' = "append"
    /\ G' = <<>> /\ G_main' = <<>>
    /\ raised_at' = step
    /\ trace' = Append(trace, Did("raise", idx))

\* line 100-108: except Exception as e. G and G_main are not read again
\* before they are bound anew and are dropped from the state.
Handler(step, msg) ==
    /\ record' = <<[city |-> CityName(idx), status |-> StatusFailed(msg),
                    nodes |-> PyNone, edges |-> PyNone,
                    area_km2 |-> PyInt(area_km2(idx))]>>
    /\ pc' = "append"
    /\ G' = <<>> /\ G_main' = <<>>
    /\ raised_at' = step
    /\ trace' = Append(trace, Did("raise", idx))

\* line 84: the largest component is taken, or max() raises on no component.
\* G is not read after this line and is dropped from the state.
Reduce ==
    /\ pc = "reduce"
    /\ LET r == largest_connected_component(G[1])
       IN  IF r.raised
           THEN Handler("reduce", r.exc)
           ELSE /\ G_main' = r.value
                /\ G' = <<>>
                /\ pc' = "save"
                /\ UNCHANGED <<record, raised_at, trace>>
    /\ UNCHANGED <<csv, files, run, idx, downloaded_cities, geom, csv0,
                   interrupted, inputVars, fnVars>>

\* line 87: ox.save_graphml opens the file for writing
SaveOpen ==
    /\ pc = "save"
    /\ files' = files \cup {CityName(idx)}
    /\ pc' = "saving"
    /\ trace' = Append(trace, Did("save", idx))
    /\ UNCHANGED <<raised_at, csv, run, idx, downloaded_cities, geom, G, G_main, record,
                   csv0, interrupted, inputVars, fnVars>>

\* line 87: the graph is written and the file closed
SaveWrite ==
    /\ pc = "saving"
    /\ pc' = "count"
    /\ UNCHANGED <<raised_at, csv, files, run, idx, downloaded_cities, geom, G, G_main,
                   record, csv0, trace, interrupted, inputVars, fnVars>>

\* line 89-98
SuccessRecord(i, g) ==
    [city |-> CityName(i), status |-> StatusSuccess,
     nodes |-> PyInt(Len(g.nodes)), edges |-> PyInt(Cardinality(g.edges)),
     area_km2 |-> PyInt(area_km2(i))]

\* line 89-98. G_main is not read after these lines and is dropped from
\* the state.
Record ==
    /\ pc = "count"
    /\ record' = <<SuccessRecord(idx, G_main[1])>>
    /\ pc' = "append"
    /\ G_main' = <<>>
    /\ UNCHANGED <<raised_at, csv, files, run, idx, downloaded_cities, geom, G,
                   csv0, trace, interrupted, inputVars, fnVars>>

\* the calls of the try block that can raise for reasons outside the script
RaisingSteps == {"downloading", "save", "saving"}

\* line 78-87 raise, line 100: a library call raises an Exception
Except ==
    /\ pc \in RaisingSteps
    /\ \E msg \in Messages : Handler(pc, msg)
    /\ UNCHANGED <<csv, files, run, idx, downloaded_cities, geom,
                   csv0, interrupted, inputVars, fnVars>>

\* line 111-116: the header is written into an empty file, then the row
AppendRow(file, rec) ==
    IF file = <<>> THEN <<header, writerow(rec)>> ELSE Append(file, writerow(rec))

\* faulty variant: the delay is skipped, the loop goes on at once
AfterAppend_continue ==
    /\ pc' = "loop"
    /\ idx' = idx + 1

\* line 116-118: the delay comes next
AfterAppend ==
    /\ pc' = "sleep"
    /\ idx' = idx

\* line 111-116
AppendCsv ==
    /\ pc = "append"
    /\ csv' = AppendRow(csv, record[1])
    /\ AfterAppend
    /\ trace' = Append(trace, Did("append", idx))
    /\ UNCHANGED <<raised_at, files, run, downloaded_cities, geom, G, G_main,
                   record, csv0, interrupted, inputVars, fnVars>>

\* line 118, then the next row of the loop. The locals of the finished
\* iteration are bound anew before they are read and are dropped from the
\* state.
Sleep ==
    /\ pc = "sleep"
    /\ trace' = Append(trace, Event("sleep", CityName(idx), FALSE, SleepSeconds))
    /\ raised_at' = ""
    /\ idx' = idx + 1
    /\ pc' = "loop"
    /\ geom' = <<>> /\ record' = <<>>
    /\ UNCHANGED <<csv, files, run, downloaded_cities, G, G_main,
                   csv0, interrupted, inputVars, fnVars>>

\* The process is killed: the disk stays as it is, the memory of the
\* process is gone.
Kill ==
    /\ pc \notin {"start", "done", "killed"}
    /\ pc' = "killed"
    /\ interrupted' = TRUE
    /\ idx' = 0 /\ downloaded_cities' = {}
    /\ geom' = <<>> /\ G' = <<>> /\ G_main' = <<>> /\ record' = <<>>
    /\ raised_at' = "" /\ csv0' = <<>> /\ trace' = <<>>
    /\ UNCHANGED <<csv, files, run, inputVars, fnVars>>

Next ==
    \/ Startup
    \/ LoopSkip
    \/ LoopEnter
    \/ LoopEnd
    \/ GetPolygon
    \/ DownloadRequest
    \/ DownloadReturn
    \/ Reduce
    \/ SaveOpen
    \/ SaveWrite
    \/ Record
    \/ Except
    \/ AppendCsv
    \/ Sleep
    \/ Kill

Spec == Init /\ [][Next]_vars

\* the invocations run to their end, on larger inputs
InitRuns == Input(NumCities, MaxRoadNodes) /\ LoopInit /\ FnIdle

NextRuns ==
    \/ Startup
    \/ LoopSkip
    \/ LoopEnter
    \/ LoopEnd
    \/ GetPolygon
    \/ DownloadRequest
    \/ DownloadReturn
    \/ Reduce
    \/ SaveOpen
    \/ SaveWrite
    \/ Record
    \/ Except
    \/ AppendCsv
    \/ Sleep

SpecRuns == InitRuns /\ [][NextRuns]_vars

\* ---------------------------------------- the two functions on their own
InitLCC ==
    /\ Input(0, 0) /\ LoopInit
    /\ lccG \in {<<g>> : g \in Graphs(MaxNodes)}
    /\ lccOut = <<>>
    /\ geomIn = <<>> /\ geomOut = <<>>

\* G_main = largest_connected_component(G), or the call raises
CallLCC ==
    /\ lccG # <<>> /\ lccOut = <<>>
    /\ lccOut' = <<largest_connected_component(lccG[1])>>
    /\ UNCHANGED <<lccG, geomIn, geomOut, inputVars, loopVars>>

SpecLCC == InitLCC /\ [][CallLCC]_vars

InitGeom ==
    /\ Input(0, 0) /\ LoopInit
    /\ geomIn \in {<<g>> : g \in Geometries}
    /\ geomOut = <<>>
    /\ lccG = <<>> /\ lccOut = <<>>

\* geom = get_city_polygon(row.geometry, simplify_tolerance)
CallGetCityPolygon ==
    /\ geomIn # <<>> /\ geomOut = <<>>
    /\ geomOut' = <<get_city_polygon(geomIn[1], simplify_tolerance)>>
    /\ UNCHANGED <<geomIn, lccG, lccOut, inputVars, loopVars>>

SpecGeom == InitGeom /\ [][CallGetCityPolygon]_vars

\* ------------------------------------------------ claims on the functions
\* S is a connected component of the graph gr: it cannot be cut in two parts without
\* cutting an edge, and no edge leaves it
IsComponent(gr, S) ==
    /\ S # {} /\ S \subseteq Range(gr.nodes)
    /\ \A T \in (SUBSET S) \ {{}, S} :
          \E e \in gr.edges : e \cap T # {} /\ e \cap (S \ T) # {}
    /\ \A e \in gr.edges : e \cap S # {} => e \subseteq S

Components(gr) == {S \in SUBSET Range(gr.nodes) : IsComponent(gr, S)}

\* the place of a component in the enumeration: that of its first node
FirstNode(gr, S) == CHOOSE i \in 1..Len(gr.nodes) :
                      gr.nodes[i] \in S /\ \A j \in 1..(i - 1) : gr.nodes[j] \notin S

C7_Result ==
    (lccOut # <<>> /\ lccG[1].nodes # <<>>) =>
        /\ ~lccOut[1].raised
        /\ LET g == lccG[1]
               h == lccOut[1].value[1]
               S == Range(h.nodes)
           IN  /\ IsComponent(g, S)
               /\ Len(h.nodes) = Cardinality(S)
               /\ h.edges = {e \in g.edges : e \subseteq S}
               /\ \A C \in Components(g) :
                     /\ Cardinality(C) <= Cardinality(S)
                     /\ (Cardinality(C) = Cardinality(S) /\ C # S)
                            => FirstNode(g, S) < FirstNode(g, C)

\* C7: for a non-empty graph G, largest_connected_component(G) returns the
\* subgraph induced by a connected component of G of the largest size (its
\* nodes, and all edges of G among them); among the components of that size
\* it is the first in the enumeration order; and G is left as it was.
C7_LargestComponent == [](C7_Result) /\ [][lccG' = lccG]_vars

\* the call has returned for a graph with several components of the largest
\* size, and one smaller than the graph itself
C7_Witness ==
    /\ lccOut # <<>> /\ ~lccOut[1].raised
    /\ LET g == lccG[1]
           S == Range(lccOut[1].value[1].nodes)
       IN  /\ Cardinality({C \in Components(g) : Cardinality(C) = Cardinality(S)}) >= 2
           /\ lccOut[1].value[1].edges # g.edges

\* the points of a ring
Points(g) == Range(g.ring)

\* C8: given a multi-polygon, get_city_polygon returns one polygon, the
\* simplification of a part whose area is the largest among the parts, made
\* of points of that part only; given a polygon, its simplification.
C8_LargestPart ==
    geomOut # <<>> =>
        LET g == geomIn[1]
            r == geomOut[1]
        IN  /\ r.geom_type = "Polygon"
            /\ IF g.geom_type = "MultiPolygon"
               THEN \E i \in 1..Len(g.geoms) :
                       /\ \A j \in 1..Len(g.geoms) : area(g.geoms[j]) <= area(g.geoms[i])
                       /\ r = simplify(g.geoms[i], simplify_tolerance)
                       /\ Points(r) \subseteq Points(g.geoms[i])
                       /\ \A j \in 1..Len(g.geoms) :
                             j # i => Points(r) \cap Points(g.geoms[j]) = {}
               ELSE /\ r = simplify(g, simplify_tolerance)
                    /\ Points(r) \subseteq Points(g)

\* the call has returned for a multi-polygon of three parts whose largest
\* part is the second, and the simplification has removed a point of it
C8_Witness ==
    /\ geomOut # <<>>
    /\ geomIn[1].geom_type = "MultiPolygon"
    /\ Len(geomIn[1].geoms) = 3
    /\ area(geomIn[1].geoms[2]) > area(geomIn[1].geoms[1])
    /\ area(geomIn[1].geoms[2]) > area(geomIn[1].geoms[3])
    /\ Points(geomOut[1]) \subseteq Points(geomIn[1].geoms[2])
    /\ Len(geomOut[1].ring) < Len(geomIn[1].geoms[2].ring)

\* --------------------------------------------------- claims on the script
\* an invocation is under way or has reached line 120
InRun == pc \notin {"start", "killed"}

\* the city names of the input
Cities == {CityName(i) : i \in 1..Len(china_cities)}

\* the rows of a CSV file that are about city c, in order
RowsFor(file, c) == SelectSeq(read_csv(file), LAMBDA r : r.city = c)

\* the rows the running invocation has appended, as a file of their own
NewCsv == <<header>> \o SubSeq(csv, Len(csv0) + 1 + (IF csv0 = <<>> THEN 1 ELSE 0), Len(csv))

\* the cities with a row of status exactly "success" in a file
SuccessNames(file) == {r.city : r \in {x \in Range(read_csv(file)) : x.status = StatusSuccess}}

\* the cities with a "failed: ..." row in a file
FailedNames(file) ==
    {r.city : r \in {x \in Range(read_csv(file)) : StartsWith(x.status, <<"failed:">>)}}

\* the events of the history that are about city c
EventsFor(c) == SelectSeq(trace, LAMBDA e : e.city = c)

\* the running invocation has reached city c and skips it by line 64
MustSkip(c) ==
    \/ c \in SuccessNames(csv0) /\ \E k \in 1..Len(trace) : trace[k].ev = "reach" /\ trace[k].city = c
    \/ \E k \in 1..Len(trace) :
          trace[k].ev = "reach" /\ trace[k].city = c /\ trace[k].had_file

\* C1: in any invocation, a city with a "success" row in the CSV at startup,
\* or whose graph file exists when the loop reaches it, is not downloaded,
\* gets no graph file written and no CSV row appended; and the CSV lines
\* that were there at startup stay as they were.
C1_NoReprocessing ==
    InRun =>
        /\ Len(csv) >= Len(csv0) /\ SubSeq(csv, 1, Len(csv0)) = csv0
        /\ \A c \in SuccessNames(csv0) : RowsFor(NewCsv, c) = <<>>
        /\ \A c \in Cities :
              MustSkip(c) =>
                  /\ \A e \in Range(EventsFor(c)) : e.ev \in {"reach", "skip"}
                  /\ RowsFor(NewCsv, c) = <<>>

\* a re-run has ended that skipped one city for its "success" row and
\* another for its graph file alone, after it had appended a row
C1_Witness ==
    /\ pc = "done" /\ run >= 2
    /\ \E c \in SuccessNames(csv0) : \E e \in Range(EventsFor(c)) : e.ev = "skip"
    /\ \E c \in Cities \ SuccessNames(csv0) :
          /\ c \notin FailedNames(csv0)
          /\ \E e \in Range(EventsFor(c)) : e.ev = "reach" /\ e.had_file
          /\ \E e \in Range(EventsFor(c)) : e.ev = "skip"

\* C2 as stated: after two invocations in sequence, no city name is in more
\* than one row of the CSV, whatever the outcomes were.
C2_NoDuplicateRows ==
    (pc = "done" /\ run = 2 /\ ~interrupted) =>
        \A c \in Cities : Len(RowsFor(csv, c)) <= 1

\* C2 as amended: no city has more than one "success" row, and no row
\* follows the "success" row of a city (a city that failed is tried again
\* and gets one more row).
C2_NoDuplicateSuccess ==
    \A c \in Cities :
        LET rows == RowsFor(csv, c)
        IN  \A k \in 1..Len(rows) : rows[k].status = StatusSuccess => k = Len(rows)

\* two invocations have ended; one city failed, then succeeded, and has two
\* rows; another succeeded at once and has one
C2_Witness ==
    /\ pc = "done" /\ run = 2 /\ ~interrupted
    /\ \E c \in Cities :
          /\ Len(RowsFor(csv, c)) = 2
          /\ StartsWith(RowsFor(csv, c)[1].status, <<"failed:">>)
          /\ RowsFor(csv, c)[2].status = StatusSuccess
    /\ \E c \in Cities :
          /\ Len(RowsFor(csv, c)) = 1
          /\ c \in SuccessNames(csv0)

\* C3: after an invocation was killed and the script was run again to its
\* end, every city with a graph file has a "success" row, and every city of
\* the input has a "success" row or a "failed: ..." row.
C3_ResumeComplete ==
    (pc = "done" /\ interrupted) =>
        /\ \A c \in files : c \in SuccessNames(csv)
        /\ \A c \in Cities : c \in SuccessNames(csv) \cup FailedNames(csv)

\* C4: a city whose rows of the earlier invocations are "failed: ..." rows
\* only is not skipped by the next invocation, whatever step had raised.
C4_FailedRetried ==
    InRun =>
        \A k \in 1..Len(trace) :
            (trace[k].ev = "skip" /\ trace[k].city \in FailedNames(csv0))
                => trace[k].city \in SuccessNames(csv0)

\* C5: when the download of a city that is not skipped raises, the
\* invocation appends one row for the city, with a status that starts with
\* "failed:" and empty nodes and edges fields, and the city's graph file is
\* not created. No city gets more than one row from an invocation.
C5_FailedDownload ==
    InRun =>
        /\ \A c \in Cities : Len(RowsFor(NewCsv, c)) <= 1
        /\ raised_at = "downloading" =>
              LET c == CityName(idx)
                  rows == RowsFor(NewCsv, c)
              IN  /\ c \notin files
                  /\ \A e \in Range(EventsFor(c)) : e.ev # "save"
                  /\ pc \in {"append", "sleep"}
                  /\ pc = "append" =>
                        /\ rows = <<>>
                        /\ StartsWith(writerow(record[1])[2], <<"failed:">>)
                        /\ writerow(record[1])[3] = <<>>
                        /\ writerow(record[1])[4] = <<>>
                  /\ pc = "sleep" =>
                        /\ Len(rows) = 1
                        /\ StartsWith(rows[1].status, <<"failed:">>)
                        /\ rows[1].nodes = <<>>
                        /\ rows[1].edges = <<>>

\* the row of a failed download has been appended
C5_Witness ==
    /\ pc = "sleep" /\ raised_at = "downloading"
    /\ Len(RowsFor(NewCsv, CityName(idx))) = 1

\* the try block of the city at hand has ended without an exception and its
\* row has been appended
SuccessAppended == pc = "sleep" /\ raised_at = ""

\* C6 as stated: a city whose try block ends without an exception gets one
\* row, with status "success" and node and edge counts greater than 0, and
\* its graph file exists when the row is appended.
C6_PositiveCounts ==
    SuccessAppended =>
        LET rows == RowsFor(NewCsv, CityName(idx))
        IN  /\ Len(rows) = 1
            /\ rows[1].status = StatusSuccess
            /\ Len(rows[1].nodes) = 1 /\ rows[1].nodes[1] > 0
            /\ Len(rows[1].edges) = 1 /\ rows[1].edges[1] > 0
            /\ CityName(idx) \in files

\* C6 as amended: the node count is greater than 0 and the edge count is 0
\* or more (0 when the largest component is one node without an edge); the
\* graph file exists before and after the row is appended.
C6_SuccessRow ==
    /\ (pc = "append" /\ raised_at = "") =>
          /\ CityName(idx) \in files
          /\ RowsFor(NewCsv, CityName(idx)) = <<>>
    /\ SuccessAppended =>
          LET rows == RowsFor(NewCsv, CityName(idx))
          IN  /\ Len(rows) = 1
              /\ rows[1].status = StatusSuccess
              /\ Len(rows[1].nodes) = 1 /\ rows[1].nodes[1] > 0
              /\ Len(rows[1].edges) = 1 /\ rows[1].edges[1] >= 0
              /\ CityName(idx) \in files

\* a "success" row with an edge has been appended
C6_Witness ==
    /\ SuccessAppended
    /\ RowsFor(NewCsv, CityName(idx))[1].edges[1] > 0

\* the cities the invocation has skipped or given a row, in order
Handled ==
    LET done == SelectSeq(trace, LAMBDA e : e.ev \in {"skip", "append"})
    IN  [k \in 1..Len(done) |-> done[k].city]

\* C9: an exception raised in the try block does not end the invocation:
\* the failed row is appended next, and the invocation ends only after every
\* city of the input, in order, has been skipped or given a row.
C9_LoopGoesOn ==
    InRun =>
        /\ \A k \in 1..Len(trace) :
              trace[k].ev = "raise" =>
                  IF k < Len(trace)
                  THEN trace[k + 1].ev = "append" /\ trace[k + 1].city = trace[k].city
                  ELSE /\ pc = "append"
                       /\ StartsWith(record[1].status, <<"failed:">>)
                       /\ record[1].city = trace[k].city
        /\ \A c \in Cities :
              (\E e \in Range(EventsFor(c)) : e.ev = "raise" /\ pc \notin {"append"})
                  => c \in FailedNames(NewCsv)
        /\ pc = "done" => Handled = [i \in 1..Len(china_cities) |-> CityName(i)]

\* an invocation has ended in which the first city raised and the loop went
\* on to give the next city a row
C9_Witness ==
    /\ pc = "done"
    /\ Len(china_cities) >= 2
    /\ \E e \in Range(EventsFor(CityName(1))) : e.ev = "raise"
    /\ \E e \in Range(EventsFor(CityName(2))) : e.ev = "append"

\* C10 as stated: each city the loop handles, skipped ones included, is
\* followed by one delay before the next city is reached.
C10_DelayAfterEveryCity ==
    InRun =>
        \A k \in 1..Len(trace) :
            (trace[k].ev = "reach" /\ k > 1)
                => trace[k - 1].ev = "sleep" /\ trace[k - 1].seconds = SleepSeconds

\* C10 as amended: each city that is not skipped is followed by one delay of
\* 3 seconds, right after its row is appended; a skipped city is followed by
\* none; between two download requests there is a delay.
C10_DelayAfterRow ==
    InRun =>
        /\ \A k \in 1..Len(trace) :
              /\ trace[k].ev = "append" =>
                    IF k < Len(trace)
                    THEN /\ trace[k + 1].ev = "sleep"
                         /\ trace[k + 1].city = trace[k].city
                         /\ trace[k + 1].seconds = SleepSeconds
                    ELSE pc = "sleep"
              /\ trace[k].ev = "sleep" =>
                    k > 1 /\ trace[k - 1].ev = "append" /\ trace[k - 1].city = trace[k].city
              /\ (trace[k].ev = "skip" /\ k < Len(trace)) => trace[k + 1].ev = "reach"
        /\ \A j \in 1..Len(trace), k \in 1..Len(trace) :
              (j < k /\ trace[j].ev = "download" /\ trace[k].ev = "download")
                  => \E m \in (j + 1)..(k - 1) : trace[m].ev = "sleep"

\* two cities were downloaded in one invocation, a success and a failure
C10_Witness ==
    /\ pc = "done"
    /\ Cardinality({k \in 1..Len(trace) : trace[k].ev = "download"}) >= 2
    /\ Cardinality({k \in 1..Len(trace) : trace[k].ev = "sleep"}) >= 2
    /\ \E k \in 1..Len(trace) : trace[k].ev = "raise"
    /\ SuccessNames(NewCsv) # {}

====
